---- MODULE Spec2Model ----
(***************************************************************************)
(* A model of tinyhci (src/tinyhci.cpp): the host side of the CC3000 HCI   *)
(* link.  One application thread calls the socket API; one interrupt       *)
(* handler (hci_irq) runs to completion whenever the device pulls the IRQ  *)
(* line low.  The device and the byte link are the environment.            *)
(***************************************************************************)
EXTENDS Integers, Sequences, FiniteSets, TLC

VARIABLES
    \* the driver's globals (src/tinyhci.cpp:49-67)
    wifi_connected, wifi_dhcp, ip_addr,
    hci_data_available, hci_pending_event_available, hci_pending_event,
    hci_buffer_count, hci_available_buffer_count,
    hci_payload_size, hci_pad, hci_state,
    \* the link: the select pin, the interrupt pin, the bytes the device has
    \* still to clock out, the bytes the host clocked out in this transaction
    cs, irq, miso, mosi,
    \* whether hci_irq is attached to the interrupt (wlan_init attaches it)
    attached,
    \* the millisecond clock, seen from the armed deadline: millis() > tmr
    late,
    \* the millisecond clock itself, millis(), read by the wait for the
    \* device after power-on
    millis,
    \* the application thread: program counter and locals
    app,
    \* the device: frames it still has to push, buffers it holds, the frame
    \* it pushed in the last step, the frames in general it has pushed
    dev,
    \* observations: the callbacks of the last step; the transaction on the
    \* link (its kind, the length its header declared, whether select was
    \* released, the pad bytes sent and all bytes sent up to the release);
    \* what the current API call has done; the received frames the last
    \* step ended (declared length, bytes transferred after the header)
    cb, txn, obs, fin

vars == <<wifi_connected, wifi_dhcp, ip_addr, hci_data_available,
          hci_pending_event_available, hci_pending_event, hci_buffer_count,
          hci_available_buffer_count, hci_payload_size, hci_pad, hci_state,
          cs, irq, miso, mosi, attached, late, millis, app, dev, cb, txn, obs,
          fin>>

-----------------------------------------------------------------------------
\* Bounds of the model.

\* the buffer count the device reports at bring-up ranges over 1..MaxBuffers
MaxBuffers == 2
\* send and recv are called with sizes 0..MaxSize
MaxSize == 2
\* the device reports received lengths 0..MaxRecv
MaxRecv == 3
\* a caller of the command/response engine declares 0..MaxArgs argument bytes
MaxArgs == 3
\* and asks the codec to write up to MaxExtra bytes more than it declared
MaxExtra == 6
\* a reader asks the codec for up to MaxOver bytes more than a frame holds
MaxOver == 2
\* of the frames in general the device pushes at most MaxFrames
MaxFrames == 2
\* an argument block of the round trip has 1..MaxFields fields
MaxFields == 2

-----------------------------------------------------------------------------
\* Program constants.

HCI_STATE_IDLE == 0
HCI_STATE_WAIT_ASSERT == 1
HCI_READ == 3
HCI_WRITE == 1
HCI_TYPE_CMND == 1
HCI_TYPE_DATA == 2
HCI_TYPE_EVNT == 4
HCI_CMND_SEND == 129
HCI_DATA_RECV == 133
HCI_CMND_SOCKET == 4097
HCI_CMND_SETSOCKOPT == 4105
HCI_CMND_SIMPLE_LINK_START == 16384
HCI_CMND_RECV == 4100
HCI_CMND_ACCEPT == 4101
HCI_CMND_CLOSE_SOCKET == 4107
\* event codes named in tinyhci.cpp; their values come from tinyhci.h
HCI_EVNT_SEND == 4099
HCI_EVNT_WLAN_UNSOL_CONNECT == 32769
HCI_EVNT_WLAN_UNSOL_DISCONNECT == 32770
HCI_EVNT_WLAN_UNSOL_DHCP == 32784
HCI_EVNT_WLAN_KEEPALIVE == 33280
HCI_EVNT_WLAN_UNSOL_TCP_CLOSE_WAIT == 34816
HCI_EVNT_DATA_UNSOL_FREE_BUFF == 16640
HCI_EVNT_CC3000_LOCKED == 65534
\* the initial value of hci_pending_event
NO_PENDING_EVENT == 65535

-----------------------------------------------------------------------------
\* Fixed-width arithmetic.

U8(x) == x % 256
U16(x) == x % 65536
\* A 32-bit value is held as the two's complement integer with the same
\* bits, the value a long has after the assignment of a uint32_t to it: the
\* model checker's integers are 32 bits wide.
Word32(b0, b1, b2, b3) ==
    b0 + 256 * b1 + 65536 * b2 + 16777216 * (IF b3 >= 128 THEN b3 - 256 ELSE b3)
\* byte n (0 = least significant) of a value; \div rounds down
ByteOf(x, n) == (x \div (256 ^ n)) % 256
Min(a, b) == IF a <= b THEN a ELSE b

-----------------------------------------------------------------------------
\* The driver's state as one record, so that the driver's functions are
\* operators from record to record.  Field v holds the value a function
\* returns.

H == [wifi_connected |-> wifi_connected, wifi_dhcp |-> wifi_dhcp,
      ip_addr |-> ip_addr, hci_data_available |-> hci_data_available,
      hci_pending_event_available |-> hci_pending_event_available,
      hci_pending_event |-> hci_pending_event,
      hci_buffer_count |-> hci_buffer_count,
      hci_available_buffer_count |-> hci_available_buffer_count,
      hci_payload_size |-> hci_payload_size, hci_pad |-> hci_pad,
      hci_state |-> hci_state, cs |-> cs, irq |-> irq, miso |-> miso,
      mosi |-> mosi, cb |-> <<>>, txn |-> txn, fin |-> <<>>, v |-> 0,
      stray |-> 0]

Commit(h) ==
    /\ wifi_connected' = h.wifi_connected
    /\ wifi_dhcp' = h.wifi_dhcp
    /\ ip_addr' = h.ip_addr
    /\ hci_data_available' = h.hci_data_available
    /\ hci_pending_event_available' = h.hci_pending_event_available
    /\ hci_pending_event' = h.hci_pending_event
    /\ hci_buffer_count' = h.hci_buffer_count
    /\ hci_available_buffer_count' = h.hci_available_buffer_count
    /\ hci_payload_size' = h.hci_payload_size
    /\ hci_pad' = h.hci_pad
    /\ hci_state' = h.hci_state
    /\ cs' = h.cs
    /\ irq' = h.irq
    /\ miso' = h.miso
    /\ mosi' = h.mosi
    /\ cb' = h.cb
    /\ txn' = h.txn
    /\ fin' = h.fin

-----------------------------------------------------------------------------
\* The byte link and the bounded field codec.

\* One full-duplex byte exchange.  A device with nothing to say clocks out 0.
\* Field stray counts the bytes a step exchanges while select is released.
\* (The state h is taken as the one element of a set, so that it is
\* evaluated once however deep the calls are nested.)
hci_transfer(h, out) ==
    LET Exchange(x) ==
            [x EXCEPT !.mosi = Append(@, out),
                      !.miso = IF @ = <<>> THEN <<>> ELSE Tail(@),
                      !.v = IF x.miso = <<>> THEN 0 ELSE Head(x.miso),
                      !.stray = IF x.cs THEN @ ELSE @ + 1]
    IN CHOOSE r \in {Exchange(x) : x \in {h}} : TRUE

\* an hci_read_u8 that transfers a byte when nothing remains of the frame
hci_read_u8_unbounded(h) ==
    hci_transfer([h EXCEPT !.hci_payload_size =
                               IF @ > 0 THEN @ - 1 ELSE 0], 0)

hci_read_u8(h) ==
    LET Read(x) ==
            IF x.hci_payload_size > 0
            THEN hci_transfer([x EXCEPT !.hci_payload_size = U16(@ - 1)], 0)
            ELSE [x EXCEPT !.v = 0]
    IN CHOOSE r \in {Read(x) : x \in {h}} : TRUE

hci_read_u16_le(h) ==
    LET b0 == hci_read_u8(h)
        b1 == hci_read_u8(b0)
    IN [b1 EXCEPT !.v = U16(b0.v + 256 * b1.v)]

hci_read_u32_le(h) ==
    LET b0 == hci_read_u8(h)
        b1 == hci_read_u8(b0)
        b2 == hci_read_u8(b1)
        b3 == hci_read_u8(b2)
    IN [b3 EXCEPT !.v = Word32(b0.v, b1.v, b2.v, b3.v)]

\* hci_read_u8 n times, the values discarded
RECURSIVE SkipBytes(_, _)
SkipBytes(h, n) == IF n = 0 THEN h ELSE SkipBytes(hci_read_u8(h), n - 1)

\* (the function is declared to return a uint8_t and has no return
\* statement: the value a caller would get is indeterminate; no caller reads
\* it, and field v is left as it was)
hci_write_u8(h, b) ==
    LET Write(x) ==
            IF x.hci_payload_size > 0
            THEN hci_transfer([x EXCEPT !.hci_payload_size = U16(@ - 1)], b)
            ELSE x
    IN CHOOSE r \in {Write(x) : x \in {h}} : TRUE

hci_write_u16_le(h, x) ==
    hci_write_u8(hci_write_u8(h, ByteOf(x, 0)), ByteOf(x, 1))

hci_write_u32_le(h, x) ==
    hci_write_u8(hci_write_u8(hci_write_u8(hci_write_u8(h,
        ByteOf(x, 0)), ByteOf(x, 1)), ByteOf(x, 2)), ByteOf(x, 3))

\* hci_read_array: length calls of hci_read_u8; field v holds the array
RECURSIVE ReadArrayLoop(_, _, _)
ReadArrayLoop(h, data, length) ==
    IF length = 0 THEN [h EXCEPT !.v = data]
    ELSE LET b == hci_read_u8(h)
         IN ReadArrayLoop(b, Append(data, b.v), length - 1)

hci_read_array(h, length) == ReadArrayLoop(h, <<>>, length)

RECURSIVE hci_write_array(_, _)
hci_write_array(h, data) ==
    IF data = <<>> THEN h
    ELSE hci_write_array(hci_write_u8(h, Head(data)), Tail(data))

-----------------------------------------------------------------------------
\* The frame protocol, receive side.

hci_begin_receive(h) ==
    LET h0 == [h EXCEPT !.cs = TRUE, !.mosi = <<>>]
        h1 == hci_transfer(h0, HCI_READ)
        h2 == hci_transfer(h1, 0)
        h3 == hci_transfer(h2, 0)
        p0 == hci_transfer(h3, 0)
        p1 == hci_transfer(p0, 0)
        len == U16(p0.v * 256 + p1.v)
    IN [p1 EXCEPT !.hci_payload_size = len,
                  !.txn = [kind |-> "rx", declared |-> len, closed |-> FALSE,
                           pads |-> 0, bytes |-> 0]]

\* no transaction is open
NoTxn == [kind |-> "none", declared |-> 0, closed |-> TRUE, pads |-> 0, bytes |-> 0]

\* the discard loop of hci_end_receive
RECURSIVE Drain(_)
Drain(h) == IF h.hci_payload_size = 0 THEN h ELSE Drain(hci_read_u8(h))

\* the record of a received frame that is ended: the length its header
\* declared and the bytes transferred after the header (d is h drained)
Finished(h, d) ==
    IF h.txn.kind = "rx"
    THEN Append(h.fin, <<h.txn.declared, Len(d.mosi) - 5>>)
    ELSE h.fin

\* an hci_end_receive that also clears the Data-Ready flag
hci_end_receive_clears(h) ==
    [Drain(h) EXCEPT !.cs = FALSE, !.irq = FALSE, !.miso = <<>>,
                     !.mosi = <<>>, !.txn = NoTxn,
                     !.fin = Finished(h, Drain(h)),
                     !.hci_data_available = FALSE]

\* an hci_end_receive that leaves select asserted
hci_end_receive_holds(h) ==
    [Drain(h) EXCEPT !.irq = FALSE, !.miso = <<>>,
                     !.mosi = <<>>, !.txn = NoTxn,
                     !.fin = Finished(h, Drain(h))]

\* After the discard loop the select line is released; the device answers
\* by releasing the interrupt line, which ends the function's last loop.
hci_end_receive(h) ==
    [Drain(h) EXCEPT !.cs = FALSE, !.irq = FALSE, !.miso = <<>>,
                     !.mosi = <<>>, !.txn = NoTxn,
                     !.fin = Finished(h, Drain(h))]

-----------------------------------------------------------------------------
\* The interrupt dispatcher.

\* a callback that is called twice
wifi_callback_twice(h, event, arg) ==
    [h EXCEPT !.cb = Append(Append(@, <<event, arg, h.cs>>),
                            <<event, arg, h.cs>>)]

\* the user's callback: the call is recorded with its arguments and with
\* whether select was asserted when it was made
wifi_callback(h, event, arg) ==
    [h EXCEPT !.cb = Append(@, <<event, arg, h.cs>>)]

\* a loop over the entries that counts the entries, not the buffers
RECURSIVE FreeBuffLoopEntries(_, _, _)
FreeBuffLoopEntries(h, i, fce_count) ==
    IF i >= fce_count THEN h
    ELSE LET skip == hci_read_u16_le(h)
             cnt == hci_read_u16_le(skip)
         IN FreeBuffLoopEntries(
                [cnt EXCEPT !.hci_available_buffer_count = U8(@ + 1)],
                i + 1, fce_count)

\* the loop over the entries of a buffers-freed event
RECURSIVE FreeBuffLoop(_, _, _)
FreeBuffLoop(h, i, fce_count) ==
    IF i >= fce_count THEN h
    ELSE LET skip == hci_read_u16_le(h)
             cnt == hci_read_u16_le(skip)
         IN FreeBuffLoop(
                [cnt EXCEPT !.hci_available_buffer_count = U8(@ + cnt.v)],
                i + 1, fce_count)

\* a dispatcher that ends the frame of every event
hci_dispatch_event_closes(h) ==
    LET t == hci_read_u16_le(h)
        h1 == hci_read_u8(t)
    IN hci_end_receive(
           [h1 EXCEPT !.hci_pending_event_available =
                          @ \/ t.v = h1.hci_pending_event])

hci_dispatch_event(h) ==
    LET t == hci_read_u16_le(h)
        rx_event_type == t.v
        h1 == hci_read_u8(t)
    IN IF rx_event_type = h1.hci_pending_event
       THEN [h1 EXCEPT !.hci_pending_event_available = TRUE]
       ELSE LET body ==
                    CASE rx_event_type = HCI_EVNT_WLAN_UNSOL_CONNECT ->
                           [h1 EXCEPT !.wifi_connected = TRUE, !.v = 0]
                      [] rx_event_type = HCI_EVNT_WLAN_UNSOL_DISCONNECT ->
                           [h1 EXCEPT !.wifi_connected = FALSE,
                                      !.wifi_dhcp = FALSE, !.v = 0]
                      [] rx_event_type = HCI_EVNT_WLAN_UNSOL_DHCP ->
                           LET s == hci_read_u8(h1)
                               a3 == hci_read_u8(s)
                               a2 == hci_read_u8(a3)
                               a1 == hci_read_u8(a2)
                               a0 == hci_read_u8(a1)
                           IN [a0 EXCEPT !.wifi_dhcp = TRUE,
                                         !.ip_addr = <<a0.v, a1.v, a2.v, a3.v>>,
                                         !.v = 0]
                      [] rx_event_type = HCI_EVNT_WLAN_UNSOL_TCP_CLOSE_WAIT ->
                           hci_read_u32_le(hci_read_u8(h1))
                      [] rx_event_type = HCI_EVNT_DATA_UNSOL_FREE_BUFF ->
                           LET s == hci_read_u8(h1)
                               n == hci_read_u16_le(s)
                           IN [FreeBuffLoop(n, 0, n.v) EXCEPT !.v = 0]
                      [] OTHER -> [h1 EXCEPT !.v = 0]
            IN hci_end_receive(wifi_callback(body, rx_event_type, body.v))

\* a data path that ends the frame
hci_dispatch_data_ends(h) ==
    LET ty == hci_read_u8(h)
        rx_args_size == hci_read_u8(ty)
        rx_payload_size == hci_read_u16_le(rx_args_size)
        args == SkipBytes(rx_payload_size, rx_args_size.v)
    IN hci_end_receive([args EXCEPT !.hci_data_available = TRUE])

hci_dispatch_data(h) ==
    LET ty == hci_read_u8(h)
        rx_args_size == hci_read_u8(ty)
        rx_payload_size == hci_read_u16_le(rx_args_size)
        args == SkipBytes(rx_payload_size, rx_args_size.v)
    IN [args EXCEPT !.hci_data_available = TRUE]

hci_dispatch(h) ==
    LET rx_type == hci_read_u8(h)
    IN IF rx_type.v = HCI_TYPE_EVNT THEN hci_dispatch_event(rx_type)
       ELSE IF rx_type.v = HCI_TYPE_DATA THEN hci_dispatch_data(rx_type)
       ELSE rx_type

\* a handler that reads a frame in either mode
hci_irq_reads(h) ==
    hci_dispatch(hci_begin_receive([h EXCEPT !.hci_state = HCI_STATE_IDLE]))

hci_irq(h) ==
    IF h.hci_state = HCI_STATE_WAIT_ASSERT
    THEN [h EXCEPT !.hci_state = HCI_STATE_IDLE]
    ELSE hci_dispatch(hci_begin_receive(h))

-----------------------------------------------------------------------------
\* The frame protocol, send side.

RECURSIVE TransferAll(_, _)
TransferAll(h, bytes) ==
    IF bytes = <<>> THEN h
    ELSE TransferAll(hci_transfer(h, U8(Head(bytes))), Tail(bytes))

\* a command header that pads the frames with an odd number of arguments
CommandHeaderPadOdd(h, opcode, argsSize) ==
    LET pad == IF argsSize % 2 = 0 THEN 0 ELSE 1
        size == U16(4 + argsSize + pad)
        h0 == [h EXCEPT !.hci_pad = pad, !.hci_payload_size = size,
                        !.txn = [kind |-> "cmd", declared |-> size,
                                closed |-> FALSE, pads |-> 0, bytes |-> 0]]
    IN TransferAll(h0, <<HCI_WRITE, size \div 256, size % 256, 0, 0,
                         HCI_TYPE_CMND, opcode % 256, opcode \div 256,
                         argsSize>>)

\* hci_begin_command, from the computation of the pad on (the handshake
\* before it is the thread's steps begin_state, begin_cs and begin_spin)
CommandHeader(h, opcode, argsSize) ==
    LET pad == IF argsSize % 2 = 0 THEN 1 ELSE 0
        size == U16(4 + argsSize + pad)
        h0 == [h EXCEPT !.hci_pad = pad, !.hci_payload_size = size,
                        !.txn = [kind |-> "cmd", declared |-> size,
                                closed |-> FALSE, pads |-> 0, bytes |-> 0]]
    IN TransferAll(h0, <<HCI_WRITE, size \div 256, size % 256, 0, 0,
                         HCI_TYPE_CMND, opcode % 256, opcode \div 256,
                         argsSize>>)

\* hci_begin_first_command, from the computation of the pad on (the wait
\* for the interrupt line and the assertion of select before it are the
\* thread's steps first_wait and first_cs)
FirstCommandHeader(h, opcode, argsSize) ==
    LET pad == IF argsSize % 2 = 0 THEN 1 ELSE 0
        size == U16(4 + argsSize + pad)
        h0 == [h EXCEPT !.hci_pad = pad, !.hci_payload_size = size,
                        !.txn = [kind |-> "cmd", declared |-> size,
                                closed |-> FALSE, pads |-> 0, bytes |-> 0]]
    IN TransferAll(h0, <<HCI_WRITE, size \div 256, size % 256, 0, 0,
                         HCI_TYPE_CMND, opcode % 256, opcode \div 256,
                         argsSize>>)

\* hci_begin_data, from the computation of the total size on
DataHeader(h, opcode, argsSize, bufferSize) ==
    LET totalSize == U16(argsSize + bufferSize)
        pad == IF totalSize % 2 # 0 THEN 1 ELSE 0
        size == U16(4 + totalSize + pad)
        h0 == [h EXCEPT !.hci_pad = pad, !.hci_payload_size = size,
                        !.txn = [kind |-> "data", declared |-> size,
                                closed |-> FALSE, pads |-> 0, bytes |-> 0]]
    IN TransferAll(h0, <<HCI_WRITE, size \div 256, size, 0, 0,
                         HCI_TYPE_DATA, opcode, argsSize,
                         totalSize, totalSize \div 256>>)

\* hci_end_command_begin_receive up to the release of the select line: the
\* Pending Reply Slot is armed, the pad byte sent, select released.  The
\* device answers the release by releasing the interrupt line.
EndCommand(h, event) ==
    LET h0 == [h EXCEPT !.hci_pending_event = event,
                        !.hci_pending_event_available = FALSE,
                        !.hci_data_available = FALSE]
        h1 == IF h0.hci_pad # 0 THEN hci_transfer(h0, 0) ELSE h0
    IN [h1 EXCEPT !.cs = FALSE, !.irq = FALSE, !.miso = <<>>,
                  !.txn = [@ EXCEPT !.closed = TRUE,
                                    !.pads = Len(h1.mosi) - Len(h.mosi),
                                    !.bytes = Len(h1.mosi)]]

-----------------------------------------------------------------------------
\* The socket API: what each call sends and awaits.

ApiOps == {"socket", "closesocket", "send", "recv"}
\* Callers of the engine in general: a command and a data frame with any
\* declared sizes and any codec writes, and the first command after power-on
RawOps == {"cmd", "data"}
DataOps == {"send", "data"}

\* the bytes of the caller's buffer handed to send
SendData(size) == [i \in 1..size |-> 160 + i]

OpcodeOf(op) ==
    CASE op = "socket" -> HCI_CMND_SOCKET
      [] op = "closesocket" -> HCI_CMND_CLOSE_SOCKET
      [] op = "recv" -> HCI_CMND_RECV
      [] op = "send" -> HCI_CMND_SEND
      [] op = "accept" -> HCI_CMND_ACCEPT
      [] op = "cmd" -> HCI_CMND_SETSOCKOPT
      [] op = "echo" -> HCI_CMND_SETSOCKOPT
      [] op = "data" -> HCI_CMND_SEND
      [] op = "first" -> HCI_CMND_SIMPLE_LINK_START

\* the event the call waits for
EventOf(op) == IF op \in DataOps THEN HCI_EVNT_SEND ELSE OpcodeOf(op)

\* the size of the argument block the call declares
ArgsSizeOf(op) ==
    CASE op = "socket" -> 12
      [] op = "closesocket" -> 4
      [] op = "recv" -> 12
      [] op = "send" -> 16
      [] op = "accept" -> 4

\* the header the call sends once the device is ready
BeginHeader(h, op, args, size) ==
    IF op \in DataOps THEN DataHeader(h, OpcodeOf(op), args, size)
    ELSE IF op = "first" THEN FirstCommandHeader(h, OpcodeOf(op), args)
    ELSE CommandHeader(h, OpcodeOf(op), args)

\* one codec write of a caller in general: w names the function
RawWriteOp(h, w) ==
    CASE w = 1 -> hci_write_u8(h, 17)
      [] w = 2 -> hci_write_u16_le(h, 8721)
      [] w = 3 -> hci_write_array(h, <<1, 2, 3>>)
      [] w = 4 -> hci_write_u32_le(h, 1144201745)

\* the argument bytes a frame declares
DeclaredArgs(op, args, size) == IF op \in DataOps THEN args + size ELSE args

\* a socket that writes type before domain
WriteArgsReordered(h, op, size, in) ==
    hci_write_u32_le(hci_write_u32_le(hci_write_u32_le(h, in[2]), in[1]),
                     in[3])

\* the codec writes of the call, in the order of the source; in holds
\* socket's domain, type and protocol
WriteArgs(h, op, size, in) ==
    CASE op = "socket" ->
           hci_write_u32_le(hci_write_u32_le(hci_write_u32_le(h,
               in[1]), in[2]), in[3])
      [] op = "closesocket" -> hci_write_u32_le(h, 0)
      [] op = "accept" -> hci_write_u32_le(h, 0)
      [] op = "recv" ->
           hci_write_u32_le(hci_write_u32_le(hci_write_u32_le(h, 0), size), 0)
      [] op = "send" ->
           hci_write_array(
               hci_write_u32_le(hci_write_u32_le(hci_write_u32_le(
                   hci_write_u32_le(h, 0), 12), size), 0),
               SendData(size))

\* the widths of the codec reads that parse the reply, in order
ReplyReads(op) ==
    CASE op = "recv" -> <<1, 4, 4, 4>>
      [] op = "accept" -> <<1, 4, 4>>
      [] op \in DataOps \cup {"first"} -> <<>>
      [] OTHER -> <<1, 4>>

ReadField(h, width) == IF width = 1 THEN hci_read_u8(h) ELSE hci_read_u32_le(h)

-----------------------------------------------------------------------------
\* The device (the environment).  It keeps to its protocol: it answers a
\* command with the event of the command's opcode, or not at all; it reports
\* as freed only buffers that a data frame filled.

LE32(x) == <<ByteOf(x, 0), ByteOf(x, 1), ByteOf(x, 2), ByteOf(x, 3)>>
LE16(x) == <<ByteOf(x, 0), ByteOf(x, 1)>>

EventFrame(code, args) ==
    <<HCI_TYPE_EVNT, ByteOf(code, 0), ByteOf(code, 1), Len(args)>> \o args

\* the payload of a data frame that carries n bytes
RecvData(n) == [i \in 1..n |-> 80 + i]

\* the argument block the device puts in front of the payload of a data frame
DataArgs == <<0, 0>>

DataFrame(n) ==
    <<HCI_TYPE_DATA, HCI_DATA_RECV, Len(DataArgs)>> \o LE16(n) \o DataArgs
        \o RecvData(n)

\* what the device clocks out in a read transaction: three busy bytes, the
\* length (high byte first), the frame
Wire(frame) ==
    <<0, 0, 0, ByteOf(Len(frame), 1), ByteOf(Len(frame), 0)>> \o frame

\* the results a command can report
Results == {258}
\* what the reply to accept can report as its status: descriptors, and
\* values below and above the descriptors
AcceptStatuses == {-2147483647, -1, 0, 7, 8, 65543}
\* the address block at the end of the reply to accept
AcceptAddr == <<2, 0, 31, 144, 10, 0, 0, 7>>
AcceptReply(st) ==
    <<EventFrame(HCI_CMND_ACCEPT,
                 <<0>> \o LE32(1) \o LE32(st) \o AcceptAddr)>>
\* the lengths a recv can report: 0..MaxRecv, and -1
RecvLens == (0..MaxRecv) \cup {-1}

\* The frames the device may owe after a write transaction whose bytes were m
\* (none: the device stays silent and the host's wait runs into its deadline).
Replies(m) ==
    {<<>>} \cup
    IF Len(m) < 9 THEN {}
    ELSE IF m[6] = HCI_TYPE_DATA
    THEN {<<EventFrame(HCI_EVNT_SEND, <<0>>)>>}
    ELSE IF m[6] = HCI_TYPE_CMND /\ m[7] + 256 * m[8] = HCI_CMND_RECV
    THEN {<<EventFrame(HCI_CMND_RECV,
                       <<0>> \o LE32(0) \o LE32(n) \o LE32(0))>>
             \o (IF n > 0 THEN <<DataFrame(n)>> ELSE <<>>) :
          n \in RecvLens}
    ELSE IF m[6] = HCI_TYPE_CMND /\ m[7] + 256 * m[8] = HCI_CMND_ACCEPT
    THEN {AcceptReply(st) : st \in AcceptStatuses}
    ELSE IF m[6] = HCI_TYPE_CMND
    THEN {<<EventFrame(m[7] + 256 * m[8], <<0>> \o LE32(r))>> : r \in Results}
    ELSE {}

\* a data frame fills one of the device's buffers, while it has one
Filled(m) == IF Len(m) >= 6 /\ m[6] = HCI_TYPE_DATA THEN 1 ELSE 0

\* the entries of a buffers-freed event: one or two counts
FreeEntries(n) ==
    {e \in UNION {[1..k -> 0..n] : k \in 1..2} :
        LET sum == IF Len(e) = 1 THEN e[1] ELSE e[1] + e[2]
        IN sum >= 1 /\ sum <= n}

RECURSIVE EntryBytes(_)
EntryBytes(e) ==
    IF e = <<>> THEN <<>> ELSE LE16(0) \o LE16(Head(e)) \o EntryBytes(Tail(e))

FreeBuffFrame(e) ==
    EventFrame(HCI_EVNT_DATA_UNSOL_FREE_BUFF,
               <<0>> \o LE16(Len(e)) \o EntryBytes(e))

RECURSIVE SumSeq(_)
SumSeq(e) == IF e = <<>> THEN 0 ELSE Head(e) + SumSeq(Tail(e))

\* the unsolicited events other than buffers-freed: those that change the
\* connectivity state, and those that do not
QuietEvents ==
    {EventFrame(HCI_EVNT_WLAN_UNSOL_TCP_CLOSE_WAIT, <<0>> \o LE32(1)),
     EventFrame(HCI_EVNT_WLAN_KEEPALIVE, <<0>>)}

PlainEvents ==
    {EventFrame(HCI_EVNT_WLAN_UNSOL_CONNECT, <<>>),
     EventFrame(HCI_EVNT_WLAN_UNSOL_DISCONNECT, <<>>),
     EventFrame(HCI_EVNT_WLAN_UNSOL_DHCP, <<0, 7, 0, 0, 10>>),
     EventFrame(HCI_EVNT_WLAN_UNSOL_TCP_CLOSE_WAIT, <<0>> \o LE32(1)),
     EventFrame(HCI_EVNT_WLAN_KEEPALIVE, <<0>>)}

-----------------------------------------------------------------------------
\* nothing observed of the current call: no byte put on the link, select
\* not asserted, no device-locked callback, no wait ended on its deadline,
\* no codec byte requested, no read made at payload size 0, no reply owed
\* by the device
NoObs == [tx |-> 0, sel |-> FALSE, locked |-> 0, timedOut |-> FALSE,
            req |-> 0, floor |-> FALSE, reply |-> <<>>, stray |-> FALSE]

\* The initial state: wlan_init has run.  Its last command was the event
\* mask (opcode 8, four argument bytes), whose reply was matched and closed;
\* the buffer pool is full.

HCI_CMND_EVENT_MASK == 8

Init ==
    /\ wifi_connected = FALSE
    /\ wifi_dhcp = FALSE
    /\ ip_addr = <<0, 0, 0, 0>>
    /\ hci_data_available = FALSE
    /\ hci_pending_event_available = TRUE
    /\ hci_pending_event = HCI_CMND_EVENT_MASK
    /\ hci_buffer_count \in 1..MaxBuffers
    /\ hci_available_buffer_count = hci_buffer_count
    /\ hci_payload_size = 0
    /\ hci_pad = 1
    /\ hci_state = HCI_STATE_IDLE
    /\ cs = FALSE
    /\ irq = FALSE
    /\ miso = <<>>
    /\ mosi = <<>>
    /\ attached = TRUE
    /\ late = FALSE
    /\ millis = 0
    /\ app = [pc |-> "idle", op |-> "none", args |-> 0, size |-> 0, k |-> 0,
              vals |-> <<>>, ret |-> 0, reg |-> 0, buffer |-> <<>>]
    /\ dev = [out |-> <<>>, inFlight |-> 0, pushed |-> <<>>, sent |-> 0]
    /\ cb = <<>>
    /\ txn = NoTxn
    /\ obs = NoObs
    /\ fin = <<>>

-----------------------------------------------------------------------------
\* The application thread.  A step commits the driver state h the step's
\* code produces, moves the thread to a2, and counts the bytes the step put
\* on the link.

AppStep(h, a2) ==
    /\ Commit(h)
    /\ app' = a2
    /\ obs' = [obs EXCEPT !.tx = @ + Len(h.mosi) - Len(mosi),
                            !.stray = @ \/ h.stray > 0]
    /\ dev' = [dev EXCEPT !.pushed = <<>>]
    /\ UNCHANGED <<late, attached, millis>>

At(pc) == app.pc = pc
Goto(pc) == [app EXCEPT !.pc = pc]

\* an API function is entered
Call(ops) ==
    /\ app.pc \in {"idle", "ret"}
    /\ \E op \in ops, size \in 0..MaxSize :
          /\ op \in {"send", "recv"} \/ size = 0 \/ (op = "accept" /\ size = 1)
          /\ app' = [pc |-> CASE op = "send" -> "send_wait"
                              [] op = "closesocket" -> "close_wait"
                              [] OTHER -> "begin_state",
                     op |-> op, args |-> ArgsSizeOf(op), size |-> size,
                     k |-> 0, vals |-> <<>>, ret |-> 0, reg |-> 0,
                     buffer |-> IF op = "socket" THEN <<2, 1, 0>> ELSE <<>>]
    /\ obs' = NoObs
    /\ Commit(H)
    /\ dev' = [dev EXCEPT !.pushed = <<>>]
    /\ UNCHANGED <<late, attached, millis>>

\* send: while (hci_available_buffer_count == 0) ;
SendMayProceed(h) == h.hci_available_buffer_count # 0

SendWait ==
    /\ At("send_wait")
    /\ SendMayProceed(H)
    /\ AppStep(H, Goto("send_load"))

\* send: hci_available_buffer_count--, the read
SendLoad ==
    /\ At("send_load")
    /\ AppStep(H, [app EXCEPT !.pc = "send_store",
                              !.reg = hci_available_buffer_count])

\* a decrement that writes the value back unchanged
StoreDecrementKept(h, reg) == [h EXCEPT !.hci_available_buffer_count = U8(reg)]

\* send: hci_available_buffer_count--, the write
StoreDecrement(h, reg) == [h EXCEPT !.hci_available_buffer_count = U8(reg - 1)]

SendStore ==
    /\ At("send_store")
    /\ AppStep(StoreDecrement(H, app.reg), Goto("begin_state"))

\* a wait that ends as soon as any credit is available
CloseMayProceedNonzero(h) == h.hci_available_buffer_count # 0

\* closesocket: while (hci_available_buffer_count != hci_buffer_count) ;
CloseMayProceed(h) == h.hci_available_buffer_count = h.hci_buffer_count

CloseWait ==
    /\ At("close_wait")
    /\ CloseMayProceed(H)
    /\ AppStep(H, Goto("begin_state"))

\* hci_begin_command, hci_begin_data: hci_state = HCI_STATE_WAIT_ASSERT
BeginState ==
    /\ At("begin_state")
    /\ AppStep([H EXCEPT !.hci_state = HCI_STATE_WAIT_ASSERT], Goto("begin_cs"))

\* hci_begin_command, hci_begin_data: select is asserted
BeginCs ==
    /\ At("begin_cs")
    /\ Commit([H EXCEPT !.cs = TRUE, !.mosi = <<>>])
    /\ app' = Goto("begin_spin")
    /\ obs' = [obs EXCEPT !.sel = TRUE]
    /\ dev' = [dev EXCEPT !.pushed = <<>>]
    /\ UNCHANGED <<late, attached, millis>>

\* a wait that does not wait
SpinMayProceedAlways(h) == TRUE

\* hci_begin_command, hci_begin_data: while (hci_state != HCI_STATE_IDLE) ;
SpinMayProceed(h) == h.hci_state = HCI_STATE_IDLE

BeginSpin ==
    /\ At("begin_spin")
    /\ SpinMayProceed(H)
    /\ AppStep(H, Goto("begin_hdr"))

\* the write header and the message header
BeginHdr ==
    /\ At("begin_hdr")
    /\ AppStep(BeginHeader(H, app.op, app.args, app.size),
               Goto(IF app.op \in RawOps \cup {"first"}
                    THEN "raw_args" ELSE "args"))

\* the caller's codec writes
Args ==
    /\ At("args")
    /\ LET h == WriteArgs(H, app.op, app.size, app.buffer)
       IN /\ Commit(h)
          /\ obs' = [obs EXCEPT !.tx = @ + Len(h.mosi) - Len(mosi),
                            !.stray = @ \/ h.stray > 0,
                                !.req = Len(h.mosi) - Len(mosi)]
    /\ app' = Goto("ecbr_release")
    /\ dev' = [dev EXCEPT !.pushed = <<>>]
    /\ UNCHANGED <<late, attached, millis>>

\* hci_end_command_begin_receive, to the release of select.  The device has
\* the frame now and decides what it owes; frames it still owed are dropped.
EcbrRelease ==
    /\ At("ecbr_release")
    /\ LET h == EndCommand(H, EventOf(app.op))
       IN /\ Commit(h)
          /\ \E r \in Replies(h.mosi) :
                /\ dev' = [out |-> r, pushed |-> <<>>, sent |-> dev.sent,
                           inFlight |-> Min(dev.inFlight + Filled(h.mosi),
                                            hci_buffer_count)]
                /\ obs' = [obs EXCEPT !.tx = @ + Len(h.mosi) - Len(mosi),
                            !.stray = @ \/ h.stray > 0,
                                      !.reply = r]
    /\ app' = Goto("ecbr_wait")
    /\ late' = FALSE
    /\ UNCHANGED <<attached, millis>>

\* while (!hci_pending_event_available && millis() <= tmr) ;
EcbrWait ==
    /\ At("ecbr_wait")
    /\ hci_pending_event_available \/ late
    /\ Commit(H)
    /\ app' = Goto("ecbr_check")
    /\ obs' = [obs EXCEPT !.timedOut = ~hci_pending_event_available]
    /\ dev' = [dev EXCEPT !.pushed = <<>>]
    /\ UNCHANGED <<late, attached, millis>>

\* a deadline check that never signals
DeadlineCheckSilent(h, isLate) == h

\* if (tmr < millis()) wifi_callback(HCI_EVNT_CC3000_LOCKED, 0); and the
\* return, which ends the life of tmr
DeadlineCheck(h, isLate) ==
    IF isLate THEN wifi_callback(h, HCI_EVNT_CC3000_LOCKED, 0) ELSE h

EcbrCheck ==
    /\ At("ecbr_check")
    /\ LET h == DeadlineCheck(H, late)
       IN /\ Commit(h)
          /\ obs' = [obs EXCEPT !.locked = @ + Len(h.cb)]
    /\ app' = Goto(IF ReplyReads(app.op) = <<>> THEN "end_rx" ELSE "res")
    /\ dev' = [dev EXCEPT !.pushed = <<>>]
    /\ late' = FALSE
    /\ UNCHANGED <<attached, millis>>

\* an accept that returns the status whatever it is
AcceptResultAny(return_status) == return_status

\* accept: if (return_status < 0 || return_status >= 8) return -1;
AcceptResult(return_status) ==
    IF return_status < 0 \/ return_status >= 8 THEN -1 ELSE return_status

\* the codec reads that parse the reply, one call a step
Res ==
    /\ At("res")
    /\ LET h == ReadField(H, ReplyReads(app.op)[app.k + 1])
       IN AppStep(h, [app EXCEPT !.vals = Append(@, h.v),
                                 !.k = @ + 1,
                                 !.pc = IF app.k + 1 = Len(ReplyReads(app.op))
                                        THEN "end_rx" ELSE "res"])

\* hci_end_receive after the reply, and what follows it without touching the
\* link: the return of the result, or recv's test of return_length; in
\* accept the call of hci_read_array for a caller that passed addr (size 1)
EndRx ==
    /\ At("end_rx")
    /\ AppStep(hci_end_receive(IF app.op = "accept" /\ app.size = 1
                               THEN hci_read_array(H, 8) ELSE H),
               CASE app.op \in DataOps ->
                      [app EXCEPT !.pc = "ret", !.ret = app.size]
                 [] app.op = "first" -> [app EXCEPT !.pc = "ret"]
                 [] app.op = "accept" ->
                      [app EXCEPT !.pc = "ret",
                                  !.ret = AcceptResult(app.vals[3]),
                                  !.buffer = IF app.size = 1
                                             THEN hci_read_array(H, 8).v
                                             ELSE <<>>]
                 [] app.op = "recv" ->
                      IF app.vals[3] > 0
                      THEN [app EXCEPT !.pc = "wait_data"]
                      ELSE [app EXCEPT !.pc = "ret", !.ret = app.vals[3]]
                 [] OTHER -> [app EXCEPT !.pc = "ret", !.ret = app.vals[2]])

\* hci_wait_data: while (!hci_data_available) ;
WaitData ==
    /\ At("wait_data")
    /\ hci_data_available
    /\ AppStep(H, Goto("recv_copy"))

\* no clip
ClipLengthNone(return_length, size) == return_length

\* recv: the clip of return_length to size
ClipLength(return_length, size) ==
    IF return_length > size THEN size ELSE return_length

\* recv: the copy loop
RECURSIVE CopyLoop(_, _, _)
CopyLoop(h, buffer, n) ==
    IF n <= 0 THEN [h |-> h, buffer |-> buffer]
    ELSE LET b == hci_read_u8(h)
         IN CopyLoop(b, Append(buffer, b.v), n - 1)

RecvCopy ==
    /\ At("recv_copy")
    /\ LET n == ClipLength(app.vals[3], app.size)
           c == CopyLoop(H, <<>>, n)
       IN AppStep(c.h, [app EXCEPT !.pc = "recv_end", !.buffer = c.buffer,
                                   !.ret = n])

\* recv: hci_end_receive after the copy, and the return
RecvEnd ==
    /\ At("recv_end")
    /\ AppStep(hci_end_receive(H), Goto("ret"))

-----------------------------------------------------------------------------
\* The interrupt: the device pulls the line low and hci_irq runs to its end.

IrqStep(h, d2) ==
    /\ attached
    /\ Commit(hci_irq(h))
    /\ dev' = d2
    /\ UNCHANGED <<app, obs, late, attached, millis>>

\* the device answers the select of a write transaction: it is ready
DeviceReady ==
    /\ cs /\ ~irq
    /\ IrqStep([H EXCEPT !.irq = TRUE], [dev EXCEPT !.pushed = <<>>])

\* the device pushes a frame it owes
DevicePush ==
    /\ ~cs /\ ~irq
    /\ dev.out # <<>>
    /\ IrqStep([H EXCEPT !.irq = TRUE, !.miso = Wire(Head(dev.out))],
               [dev EXCEPT !.out = Tail(@), !.pushed = Head(dev.out)])

\* the device pushes an unsolicited event
DeviceEvent ==
    /\ ~cs /\ ~irq
    /\ \E f \in QuietEvents :
          IrqStep([H EXCEPT !.irq = TRUE, !.miso = Wire(f)],
                  [dev EXCEPT !.pushed = f])

\* the device reports buffers it has freed
DeviceFree ==
    /\ ~cs /\ ~irq
    /\ \E e \in FreeEntries(dev.inFlight) :
          IrqStep([H EXCEPT !.irq = TRUE, !.miso = Wire(FreeBuffFrame(e))],
                  [dev EXCEPT !.pushed = FreeBuffFrame(e),
                              !.inFlight = @ - SumSeq(e)])

\* the clock passes the deadline of the wait
Tick ==
    /\ app.pc \in {"ecbr_wait", "ecbr_check"}
    /\ ~late
    /\ late' = TRUE
    /\ Commit(H)
    /\ dev' = [dev EXCEPT !.pushed = <<>>]
    /\ UNCHANGED <<app, obs, attached, millis>>

CallApi == Call(ApiOps)

-----------------------------------------------------------------------------
\* Callers of the engine in general, from power-on.

\* the state at power-on: the static initialisers, select released by
\* wlan_init's pin setup, hci_irq not yet attached
InitFrame ==
    /\ wifi_connected = FALSE
    /\ wifi_dhcp = FALSE
    /\ ip_addr = <<0, 0, 0, 0>>
    /\ hci_data_available = FALSE
    /\ hci_pending_event_available = FALSE
    /\ hci_pending_event = NO_PENDING_EVENT
    /\ hci_buffer_count = 0
    /\ hci_available_buffer_count = 0
    /\ hci_payload_size = 0
    /\ hci_pad = 0
    /\ hci_state = HCI_STATE_IDLE
    /\ cs = FALSE
    /\ irq = FALSE
    /\ miso = <<>>
    /\ mosi = <<>>
    /\ attached = FALSE
    /\ late = FALSE
    /\ millis = 0
    /\ app = [pc |-> "boot", op |-> "none", args |-> 0, size |-> 0, k |-> 0,
              vals |-> <<>>, ret |-> 0, reg |-> 0, buffer |-> <<>>,
              start |-> 0, entry |-> 0]
    /\ dev = [out |-> <<>>, inFlight |-> 0, pushed |-> <<>>, sent |-> 0]
    /\ cb = <<>>
    /\ txn = NoTxn
    /\ obs = NoObs
    /\ fin = <<>>

\* the device signals after power-up that it is ready; no handler runs
DevicePowerUp ==
    /\ ~attached /\ ~irq /\ ~cs
    /\ Commit([H EXCEPT !.irq = TRUE])
    /\ dev' = [dev EXCEPT !.pushed = <<>>]
    /\ UNCHANGED <<app, obs, late, attached, millis>>

\* the first command after power-on is begun
CallFirst ==
    /\ At("boot")
    /\ \E args \in 0..MaxArgs :
          app' = [app EXCEPT !.pc = "first_wait", !.op = "first",
                             !.args = args,
                             !.start = U16(millis), !.entry = millis]
    /\ obs' = NoObs
    /\ Commit(H)
    /\ dev' = [dev EXCEPT !.pushed = <<>>]
    /\ UNCHANGED <<late, attached, millis>>

\* the wait for the device gives up after this many milliseconds
FIRST_TIMEOUT == 5000

\* hci_begin_first_command: millis() - start, in unsigned long; start is
\* the low 16 bits of the clock at entry.  The clock of the model stays
\* far below 2^31, where the subtraction does not wrap.
FirstElapsed(now, a) == now - a.start

\* hci_begin_first_command: one turn of
\* while (digitalRead(CC3K_IRQ_PIN) != LOW): the line is low and the loop
\* is left, or the deadline has passed and the function halts in for (;;),
\* or the loop goes round
FirstWait ==
    /\ At("first_wait")
    /\ AppStep(H, IF irq THEN Goto("first_cs")
                  ELSE IF FirstElapsed(millis, app) >= FIRST_TIMEOUT
                       THEN Goto("halt")
                       ELSE app)

\* hci_begin_first_command: select is asserted
FirstCs ==
    /\ At("first_cs")
    /\ Commit([H EXCEPT !.cs = TRUE, !.mosi = <<>>])
    /\ app' = Goto("begin_hdr")
    /\ obs' = [obs EXCEPT !.sel = TRUE]
    /\ dev' = [dev EXCEPT !.pushed = <<>>]
    /\ UNCHANGED <<late, attached, millis>>

\* a later command or data frame is begun
CallRaw ==
    /\ At("ret")
    /\ \E op \in RawOps, args \in 0..MaxArgs, size \in 0..MaxSize :
          /\ op = "data" \/ size = 0
          /\ app' = [pc |-> "begin_state", op |-> op, args |-> args,
                     size |-> size, k |-> 0, vals |-> <<>>, ret |-> 0,
                     reg |-> 0, buffer |-> <<>>]
    /\ obs' = NoObs
    /\ Commit(H)
    /\ dev' = [dev EXCEPT !.pushed = <<>>]
    /\ UNCHANGED <<late, attached, millis>>

\* the caller calls one of the codec's write functions
RawWrite ==
    /\ At("raw_args")
    /\ \E w \in 1..4 :
          /\ obs.req + w <= DeclaredArgs(app.op, app.args, app.size) + MaxExtra
          /\ LET h == RawWriteOp(H, w)
             IN /\ Commit(h)
                /\ obs' = [obs EXCEPT !.tx = @ + Len(h.mosi) - Len(mosi),
                            !.stray = @ \/ h.stray > 0,
                                      !.req = @ + w]
    /\ app' = app
    /\ dev' = [dev EXCEPT !.pushed = <<>>]
    /\ UNCHANGED <<late, attached, millis>>

\* the caller has written what it writes
RawDone ==
    /\ At("raw_args")
    /\ AppStep(H, Goto(IF app.op = "first" THEN "attach" ELSE "ecbr_release"))

\* wlan_init: attachInterrupt(CC3K_IRQ_NUM, hci_irq, FALLING)
Attach ==
    /\ At("attach")
    /\ attached' = TRUE
    /\ Commit(H)
    /\ app' = Goto("ecbr_release")
    /\ dev' = [dev EXCEPT !.pushed = <<>>]
    /\ UNCHANGED <<obs, late, millis>>

NextFrame ==
    \/ DevicePowerUp \/ CallFirst \/ FirstWait \/ FirstCs
    \/ CallRaw
    \/ BeginState \/ BeginCs \/ BeginSpin \/ BeginHdr
    \/ RawWrite \/ RawDone \/ Attach
    \/ EcbrRelease \/ EcbrWait \/ EcbrCheck
    \/ Res \/ EndRx
    \/ DeviceReady \/ DevicePush
    \/ Tick

SpecFrame == InitFrame /\ [][NextFrame]_vars

-----------------------------------------------------------------------------
\* The wait for the device after power-on, with the clock: wlan_init is
\* called at some time after power-on, the clock runs while
\* hci_begin_first_command waits, and the device signals that it is ready
\* at any time or never.

\* the wait is followed for this many milliseconds
MaxWaitMs == 5001

\* values of millis() when hci_begin_first_command is entered
EntryClocks == {0, 60536, 65535, 65536, 70000}

\* time passes between power-on and the call of wlan_init
Elapse ==
    /\ At("boot")
    /\ millis = 0
    /\ millis' \in EntryClocks \ {0}
    /\ Commit(H)
    /\ dev' = [dev EXCEPT !.pushed = <<>>]
    /\ UNCHANGED <<app, obs, late, attached>>

\* the timer interrupt advances millis() while the function waits
ClockTick ==
    /\ At("first_wait")
    /\ millis - app.entry < MaxWaitMs
    /\ millis' = millis + 1
    /\ Commit(H)
    /\ dev' = [dev EXCEPT !.pushed = <<>>]
    /\ UNCHANGED <<app, obs, late, attached>>

NextFirst ==
    \/ Elapse \/ CallFirst \/ ClockTick \/ DevicePowerUp
    \/ FirstWait \/ FirstCs \/ BeginHdr

SpecFirst == InitFrame /\ [][NextFirst]_vars

-----------------------------------------------------------------------------
\* Frames in general, and a reader in general: after bring-up the device
\* pushes any frame, whole or cut short, and the thread reads what the
\* dispatcher left open with any codec reads.

\* the freed counts an entry reports
FreedCounts == {3, 5, 255}
RxEntries == UNION {[1..k -> FreedCounts] : k \in 0..2}

WholeFrames ==
    PlainEvents
    \cup {EventFrame(HCI_EVNT_WLAN_UNSOL_TCP_CLOSE_WAIT, <<0>> \o LE32(258))}
    \cup {FreeBuffFrame(e) : e \in RxEntries}
    \cup {EventFrame(HCI_CMND_EVENT_MASK, <<0>> \o LE32(258)),
          EventFrame(HCI_EVNT_SEND, <<0>>), <<0>>}
    \cup {DataFrame(n) : n \in 0..MaxRecv}

\* the frames cut short: a buffers-freed event and a data frame after any
\* of their bytes
CutFrames ==
    {SubSeq(FreeBuffFrame(<<3, 5>>), 1, k) :
         k \in 0..Len(FreeBuffFrame(<<3, 5>>))}
    \cup {SubSeq(DataFrame(1), 1, k) : k \in 0..Len(DataFrame(1))}
    \cup {SubSeq(EventFrame(HCI_EVNT_WLAN_UNSOL_DHCP, <<0, 7, 0, 0, 10>>),
                 1, k) : k \in 4..8}

RxFrames == WholeFrames \cup CutFrames

DeviceAny ==
    /\ ~cs /\ ~irq
    /\ dev.sent < MaxFrames
    /\ \E f \in RxFrames :
          IrqStep([H EXCEPT !.irq = TRUE, !.miso = Wire(f)],
                  [dev EXCEPT !.pushed = f, !.sent = @ + 1])

\* one codec read of a reader in general: w names the function
RawReadOp(h, w) ==
    CASE w = 1 -> hci_read_u8(h)
      [] w = 2 -> hci_read_u16_le(h)
      [] w = 4 -> hci_read_u32_le(h)

\* the thread reads from the frame the dispatcher left open
RawRead ==
    /\ At("idle")
    /\ txn.kind = "rx"
    /\ \E w \in {1, 2, 4} :
          /\ obs.req + w <= txn.declared + MaxOver
          /\ LET h == RawReadOp(H, w)
             IN /\ Commit(h)
                /\ app' = [app EXCEPT !.ret = h.v, !.k = w]
                /\ obs' = [obs EXCEPT !.req = @ + w,
                                      !.floor = hci_payload_size < w]
    /\ dev' = [dev EXCEPT !.pushed = <<>>]
    /\ UNCHANGED <<late, attached, millis>>

\* the thread ends the frame
RawEndReceive ==
    /\ At("idle")
    /\ txn.kind = "rx"
    /\ Commit(hci_end_receive(H))
    /\ app' = [app EXCEPT !.ret = 0, !.k = 0]
    /\ obs' = NoObs
    /\ dev' = [dev EXCEPT !.pushed = <<>>]
    /\ UNCHANGED <<late, attached, millis>>

NextRx == DeviceAny \/ RawRead \/ RawEndReceive

SpecRx == Init /\ [][NextRx]_vars

-----------------------------------------------------------------------------
\* The codec's round trip: a caller writes an argument block of fixed shape
\* in a command frame, the device sends the bytes of the block back as the
\* arguments of the awaited event, and the caller reads them with the reads
\* of the same widths.

\* the values of each width, 32-bit values as two's complement
FieldValues(w) ==
    CASE w = 1 -> {0, 1, 128, 255}
      [] w = 2 -> {0, 255, 256, 4660, 65535}
      [] w = 4 -> {0, 255, 65536, 305419896, 2147483647, -2147483647, -1}

Fields == UNION {{<<w, x>> : x \in FieldValues(w)} : w \in {1, 2, 4}}
Blocks == UNION {[1..k -> Fields] : k \in 1..MaxFields}

RECURSIVE BlockSize(_)
BlockSize(b) == IF b = <<>> THEN 0 ELSE Head(b)[1] + BlockSize(Tail(b))

\* a write that sends the most significant byte first
WriteFieldMsbFirst(h, w, x) ==
    CASE w = 1 -> hci_write_u8(h, x)
      [] w = 2 -> hci_write_u8(hci_write_u8(h, ByteOf(x, 1)), ByteOf(x, 0))
      [] w = 4 -> hci_write_u8(hci_write_u8(hci_write_u8(hci_write_u8(h,
                      ByteOf(x, 3)), ByteOf(x, 2)), ByteOf(x, 1)), ByteOf(x, 0))

\* one codec write of the width w
WriteField(h, w, x) ==
    CASE w = 1 -> hci_write_u8(h, x)
      [] w = 2 -> hci_write_u16_le(h, x)
      [] w = 4 -> hci_write_u32_le(h, x)

\* the caller begins the command that carries the block
CallEcho ==
    /\ At("idle")
    /\ \E b \in Blocks :
          app' = [pc |-> "begin_state", op |-> "echo", args |-> BlockSize(b),
                  size |-> 0, k |-> 0, vals |-> <<>>, ret |-> 0, reg |-> 0,
                  buffer |-> b]
    /\ obs' = NoObs
    /\ Commit(H)
    /\ dev' = [dev EXCEPT !.pushed = <<>>]
    /\ UNCHANGED <<late, attached, millis>>

\* the caller writes the next field of the block
EchoWrite ==
    /\ At("args") /\ app.op = "echo"
    /\ LET f == app.buffer[app.k + 1]
           h == WriteField(H, f[1], f[2])
       IN /\ Commit(h)
          /\ obs' = [obs EXCEPT !.tx = @ + Len(h.mosi) - Len(mosi),
                            !.stray = @ \/ h.stray > 0,
                                !.req = @ + f[1]]
    /\ app' = [app EXCEPT !.k = IF app.k + 1 = Len(app.buffer) THEN 0
                                ELSE @ + 1,
                          !.pc = IF app.k + 1 = Len(app.buffer)
                                 THEN "ecbr_release" ELSE "args"]
    /\ dev' = [dev EXCEPT !.pushed = <<>>]
    /\ UNCHANGED <<late, attached, millis>>

\* the device answers with the event of the opcode, its arguments the
\* argument bytes of the command (m is what the host clocked out), or not
\* at all
EchoReplies(m) ==
    {<<>>, <<EventFrame(m[7] + 256 * m[8], SubSeq(m, 10, 9 + m[9]))>>}

\* hci_end_command_begin_receive, to the release of select
EchoRelease ==
    /\ At("ecbr_release") /\ app.op = "echo"
    /\ LET h == EndCommand(H, EventOf(app.op))
       IN /\ Commit(h)
          /\ \E r \in EchoReplies(h.mosi) :
                /\ dev' = [dev EXCEPT !.out = r, !.pushed = <<>>]
                /\ obs' = [obs EXCEPT !.tx = @ + Len(h.mosi) - Len(mosi),
                            !.stray = @ \/ h.stray > 0,
                                      !.reply = r]
    /\ app' = Goto("ecbr_wait")
    /\ late' = FALSE
    /\ UNCHANGED <<attached, millis>>

\* the caller reads the next field of the block
EchoRead ==
    /\ At("res") /\ app.op = "echo"
    /\ LET h == RawReadOp(H, app.buffer[app.k + 1][1])
       IN AppStep(h, [app EXCEPT !.vals = Append(@, h.v),
                                 !.k = @ + 1,
                                 !.pc = IF app.k + 1 = Len(app.buffer)
                                        THEN "end_rx" ELSE "res"])

\* hci_end_receive, and the return
EchoEnd ==
    /\ At("end_rx") /\ app.op = "echo"
    /\ AppStep(hci_end_receive(H), Goto("ret"))

NextCodec ==
    \/ CallEcho
    \/ BeginState \/ BeginCs \/ BeginSpin \/ BeginHdr
    \/ EchoWrite \/ EchoRelease
    \/ EcbrWait \/ EcbrCheck
    \/ EchoRead \/ EchoEnd
    \/ DeviceReady \/ DevicePush
    \/ Tick

SpecCodec == Init /\ [][NextCodec]_vars

-----------------------------------------------------------------------------
\* The calls of socket with any arguments, and a device that reports any
\* status and result.

SocketDomains == {2, 305419896}
SocketTypes == {1, -2}
SocketProtocols == {0, 6, 65536}
SocketStatuses == {0, 5}
SocketResults == {0, 7, 258, -1, -57}

SocketReply(st, r) == <<EventFrame(HCI_CMND_SOCKET, <<st>> \o LE32(r))>>

CallSocket ==
    /\ app.pc \in {"idle", "ret"}
    /\ \E d \in SocketDomains, t \in SocketTypes, p \in SocketProtocols :
          app' = [pc |-> "begin_state", op |-> "socket",
                  args |-> ArgsSizeOf("socket"), size |-> 0, k |-> 0,
                  vals |-> <<>>, ret |-> 0, reg |-> 0, buffer |-> <<d, t, p>>]
    /\ obs' = NoObs
    /\ Commit(H)
    /\ dev' = [dev EXCEPT !.pushed = <<>>]
    /\ UNCHANGED <<late, attached, millis>>

\* hci_end_command_begin_receive, to the release of select; the device
\* owes the reply or stays silent, frames it still owed are dropped
SocketRelease ==
    /\ At("ecbr_release") /\ app.op = "socket"
    /\ LET h == EndCommand(H, EventOf(app.op))
       IN /\ Commit(h)
          /\ \E r \in {<<>>} \cup {SocketReply(st, x) :
                                      st \in SocketStatuses,
                                      x \in SocketResults} :
                /\ dev' = [dev EXCEPT !.out = r, !.pushed = <<>>]
                /\ obs' = [obs EXCEPT !.tx = @ + Len(h.mosi) - Len(mosi),
                            !.stray = @ \/ h.stray > 0,
                                      !.reply = r]
    /\ app' = Goto("ecbr_wait")
    /\ late' = FALSE
    /\ UNCHANGED <<attached, millis>>

NextSocket ==
    \/ CallSocket
    \/ BeginState \/ BeginCs \/ BeginSpin \/ BeginHdr \/ Args
    \/ SocketRelease \/ EcbrWait \/ EcbrCheck
    \/ Res \/ EndRx
    \/ DeviceReady \/ DevicePush
    \/ Tick

SpecSocket == Init /\ [][NextSocket]_vars

-----------------------------------------------------------------------------
\* The calls of accept after bring-up, with the same device.

CallAccept == Call({"accept"})

NextAccept ==
    \/ CallAccept
    \/ BeginState \/ BeginCs \/ BeginSpin \/ BeginHdr \/ Args
    \/ EcbrRelease \/ EcbrWait \/ EcbrCheck
    \/ Res \/ EndRx
    \/ DeviceReady \/ DevicePush \/ DeviceEvent
    \/ Tick

SpecAccept == Init /\ [][NextAccept]_vars

-----------------------------------------------------------------------------
\* The frames the handler opens and who ends them: the thread calls socket
\* and recv or stays idle, and the device, besides what it owes, pushes
\* frames whose leading type byte is neither event nor data.  The thread
\* and the clock keep running and the device does what it has to do; the
\* application is free to make no further call.

\* frames with a leading byte that is no known type
OtherFrames == {<<0>>, <<3, 9, 9>>}

DeviceOther ==
    /\ ~cs /\ ~irq
    /\ dev.sent < MaxFrames
    /\ \E f \in OtherFrames :
          IrqStep([H EXCEPT !.irq = TRUE, !.miso = Wire(f)],
                  [dev EXCEPT !.pushed = f, !.sent = @ + 1])

CallOpen == Call({"socket", "recv"})

\* the steps of the thread inside an API call
ThreadOpen ==
    \/ BeginState \/ BeginCs \/ BeginSpin \/ BeginHdr \/ Args
    \/ EcbrRelease \/ EcbrWait \/ EcbrCheck
    \/ Res \/ EndRx
    \/ WaitData \/ RecvCopy \/ RecvEnd

NextOpen ==
    \/ CallOpen
    \/ ThreadOpen
    \/ DeviceReady \/ DevicePush \/ DeviceOther
    \/ Tick

SpecOpen == Init /\ [][NextOpen]_vars

\* the thread runs whenever it can, the device answers a select, the clock
\* advances.  (Nothing is assumed of when the device pushes a frame: it
\* pushes none while select is asserted, which it is as long as a frame
\* the handler left open is not ended.)
SpecOpenFair ==
    /\ SpecOpen
    /\ WF_vars(ThreadOpen)
    /\ WF_vars(DeviceReady)
    /\ WF_vars(Tick)

-----------------------------------------------------------------------------
\* The credits over time: the thread calls send and closesocket, the device
\* answers, and reports the buffers it has freed.  The thread and the
\* clock keep running and the device does what it has to do.

CallCredit == Call({"send", "closesocket"})

\* the steps of the thread inside send and closesocket
ThreadCredit ==
    \/ SendWait \/ SendLoad \/ SendStore
    \/ CloseWait
    \/ BeginState \/ BeginCs \/ BeginSpin \/ BeginHdr \/ Args
    \/ EcbrRelease \/ EcbrWait \/ EcbrCheck
    \/ Res \/ EndRx

NextCredit ==
    \/ CallCredit
    \/ ThreadCredit
    \/ DeviceReady \/ DevicePush \/ DeviceFree
    \/ Tick

SpecCredit == Init /\ [][NextCredit]_vars

\* the thread runs whenever it can; the device answers a select and
\* pushes the frames it owes; the clock advances.  (When the device
\* reports its freed buffers is left open: the property speaks of the
\* states in which it has reported them all, dev.inFlight = 0.)
SpecCreditFair ==
    /\ SpecCredit
    /\ WF_vars(ThreadCredit)
    /\ WF_vars(DeviceReady)
    /\ WF_vars(DevicePush)
    /\ WF_vars(Tick)

Next ==
    \/ CallApi
    \/ SendWait \/ SendLoad \/ SendStore
    \/ CloseWait
    \/ BeginState \/ BeginCs \/ BeginSpin \/ BeginHdr \/ Args
    \/ EcbrRelease \/ EcbrWait \/ EcbrCheck
    \/ Res \/ EndRx
    \/ WaitData \/ RecvCopy \/ RecvEnd
    \/ DeviceReady \/ DevicePush \/ DeviceEvent \/ DeviceFree
    \/ Tick

Spec == Init /\ [][Next]_vars

-----------------------------------------------------------------------------
\* Properties.

\* C1: after bring-up the available credits never exceed the total, for
\* every interleaving of send calls (the decrement's read and write taken
\* apart) with the buffers-freed events the interrupt handler handles.
CreditsWithinTotal == hci_available_buffer_count <= hci_buffer_count

\* C1, the case: a buffers-freed event was handled between the read and the
\* write of send's decrement.
FreedDuringDecrement ==
    /\ app.pc = "send_store"
    /\ cb # <<>>
    /\ cb[1][1] = HCI_EVNT_DATA_UNSOL_FREE_BUFF

\* C2: while closesocket busy-waits it has put no byte on the link and has
\* not asserted select, and it leaves the wait only in a state in which
\* the available credits equal the total.
CloseWaitsForCredits ==
    [][app.pc = "close_wait" =>
          /\ obs.tx = 0 /\ ~obs.sel
          /\ obs'.tx = 0 /\ ~obs'.sel
          /\ app'.pc # "close_wait" =>
                hci_available_buffer_count = hci_buffer_count]_vars

\* C2, the case: closesocket is busy-waiting for credits.
CloseIsWaiting ==
    /\ app.pc = "close_wait"
    /\ hci_available_buffer_count # hci_buffer_count

\* C3: a call of hci_end_command_begin_receive whose wait loop ended on the
\* deadline, the slot not available, has invoked the callback with the
\* device-locked event exactly once when it has run its deadline check, and
\* the caller goes on after it.
LockedExactlyOnce ==
    /\ obs.locked <= 1
    /\ obs.timedOut /\ app.pc # "ecbr_check" =>
          /\ obs.locked = 1
          /\ app.pc \in {"res", "end_rx", "wait_data", "recv_copy",
                         "recv_end", "ret"}

\* C3, the case: a call that timed out has returned.
TimedOutCallReturned ==
    obs.timedOut /\ obs.locked = 1 /\ app.pc = "ret"

\* C4: of a received frame whose header declared L bytes the codec
\* transfers at most L bytes after the header, while the frame is open and
\* when it is ended; and a read asked of the codec when nothing remains of
\* the frame returns 0, transfers nothing and leaves the remainder at 0.
ReadsWithinLength ==
    [][/\ txn'.kind = "rx" =>
             /\ Len(mosi') - 5 <= txn'.declared
             /\ Len(mosi') - 5 + hci_payload_size' = txn'.declared
       /\ \A i \in 1..Len(fin') : fin'[i][2] <= fin'[i][1]
       /\ (/\ txn.kind = "rx" /\ app.pc = "idle"
           /\ obs'.req > obs.req /\ hci_payload_size = 0)
          => /\ app'.ret = 0
             /\ mosi' = mosi
             /\ hci_payload_size' = 0]_vars

\* C4, the case: the thread asked for a byte of a data frame of which
\* nothing remained, after all its declared bytes were transferred.
ReadAtFloor ==
    /\ txn.kind = "rx" /\ txn.declared > 0 /\ hci_payload_size = 0
    /\ obs.floor /\ app.k = 1 /\ app.ret = 0
    /\ Len(mosi) - 5 = txn.declared
    /\ obs.req > txn.declared

\* C5: in a command or data frame the bytes put on the link after the
\* 5-byte write header (message header, codec-written bytes, pad byte) never
\* exceed the length the write header declared.
WritesWithinDeclared ==
    txn.kind \in {"cmd", "data"} =>
        (IF txn.closed THEN txn.bytes ELSE Len(mosi)) - 5 <= txn.declared

\* C6: when a command, first-command or data frame whose caller asked the
\* codec for exactly the declared argument bytes is closed by
\* hci_end_command_begin_receive, one pad byte was sent if the write header,
\* the message header and the arguments make an odd number of bytes and
\* none otherwise, and the bytes of the transaction are an even number.
PadIffOdd ==
    (/\ app.pc = "ecbr_wait"
     /\ txn.kind \in {"cmd", "data"} /\ txn.closed
     /\ obs.req = DeclaredArgs(app.op, app.args, app.size))
    => LET unpadded == 5 + (IF app.op \in DataOps THEN 5 ELSE 4)
                         + DeclaredArgs(app.op, app.args, app.size)
       IN /\ txn.pads = unpadded % 2
          /\ txn.bytes = unpadded + txn.pads
          /\ txn.bytes % 2 = 0

\* C6, the case: a data frame of 1 argument byte and 2 buffer bytes, all
\* three written, was closed with a pad byte, 14 bytes in all.
PadAfterOddData ==
    /\ app.pc = "ecbr_wait" /\ app.op = "data"
    /\ app.args = 1 /\ app.size = 2 /\ obs.req = 3
    /\ txn.kind = "data" /\ txn.closed
    /\ txn.pads = 1 /\ txn.bytes = 14

\* C7: the awaited event code is back at the "none" value once the
\* dispatcher has matched a reply to it, and once a wait has ended on its
\* deadline.
PendingSlotCleared ==
    [][(\/ ~hci_pending_event_available /\ hci_pending_event_available'
        \/ app.pc = "ecbr_wait" /\ app'.pc = "ecbr_check" /\ obs'.timedOut)
       => hci_pending_event' = NO_PENDING_EVENT]_vars

\* recv has returned after draining a data frame
RecvDrained ==
    /\ app.op = "recv" /\ app.pc = "ret"
    /\ app.vals[3] > 0

\* C8: when recv returns after draining a data frame the Data-Ready flag is
\* false.
DataReadyClearedOnReturn == RecvDrained => ~hci_data_available

\* C8, as amended: the flag is still set when recv returns after draining a
\* data frame; only the arming of the next command's wait clears it, and
\* the flag is false when that wait begins.
DataReadyClearedByNextCommand ==
    [][/\ hci_data_available /\ ~hci_data_available' =>
             app.pc = "ecbr_release"
       /\ app.pc = "recv_end" /\ app'.pc = "ret" => hci_data_available'
       /\ app.pc = "ecbr_release" /\ app'.pc = "ecbr_wait" =>
             ~hci_data_available']_vars

\* C8, the case: recv has returned after draining a data frame, the flag set.
RecvReturnedFlagSet == RecvDrained /\ hci_data_available

\* C9: when the dispatcher handles an unsolicited buffers-freed event whose
\* entries report the counts c1..ck, the available credits grow by
\* c1 + ... + ck in 8-bit arithmetic.
FreedCountsAdded ==
    [][\A e \in RxEntries :
          dev'.pushed = FreeBuffFrame(e) =>
              hci_available_buffer_count' =
                  U8(hci_available_buffer_count + SumSeq(e))]_vars

\* C9, the case: with 2 credits available, an event of two entries with
\* the counts 3 and 5 was handled, and 10 are available.
FreedThreeAndFive ==
    /\ dev.pushed = FreeBuffFrame(<<3, 5>>)
    /\ dev.sent = 1
    /\ hci_buffer_count = 2
    /\ hci_available_buffer_count = 10
    /\ cb = <<<<HCI_EVNT_DATA_UNSOL_FREE_BUFF, 0, TRUE>>>>

\* C10: when recv's wait ended with the reply and the reply reports a
\* length n > 0, recv returns min(n, size) with exactly the first min(n, size)
\* bytes of the data frame's payload in the caller's buffer, the rest of the
\* frame discarded: payload_remaining is 0 and select is released.
RecvCopiesMin ==
    RecvDrained /\ ~obs.timedOut =>
        LET n == app.vals[3]
            m == Min(n, app.size)
        IN /\ app.ret = m
           /\ app.buffer = SubSeq(RecvData(n), 1, m)
           /\ hci_payload_size = 0
           /\ ~cs

\* C10, the case: recv with a buffer of 2 bytes, the reply reporting 1.
RecvShortPayload ==
    /\ RecvDrained /\ ~obs.timedOut
    /\ app.size = 2 /\ app.vals[3] = 1
    /\ app.ret = 1 /\ app.buffer = <<81>>

\* C11: when accept returns after a wait that ended with the reply, it
\* returns the status the reply reports if that is one of 0..7 and -1 for
\* every other status, and the receive transaction is ended: nothing remains
\* of the frame, select is released.
AcceptMapsStatus ==
    \A st \in AcceptStatuses :
        (/\ app.op = "accept" /\ app.pc = "ret"
         /\ ~obs.timedOut /\ obs.reply = AcceptReply(st))
        => /\ app.ret = (IF st \in 0..7 THEN st ELSE -1)
           /\ hci_payload_size = 0 /\ ~cs /\ txn.kind = "none"

\* C11, the case: the reply reported the status 8 and accept returned -1
\* after reading the address.
AcceptOutOfRange ==
    /\ app.op = "accept" /\ app.pc = "ret" /\ app.size = 1
    /\ ~obs.timedOut /\ obs.reply = AcceptReply(8)
    /\ app.ret = -1 /\ app.buffer = AcceptAddr /\ ~cs

\* the fields of a block decoded so far are the fields written
RECURSIVE Decoded(_, _)
Decoded(vals, block) ==
    vals = <<>> \/ (/\ Head(vals) = Head(block)[2]
                    /\ Decoded(Tail(vals), Tail(block)))

\* the bytes are those of the fields, least significant byte first
RECURSIVE LsbFirst(_, _)
LsbFirst(bytes, block) ==
    IF block = <<>> THEN bytes = <<>>
    ELSE LET w == Head(block)[1]
             x == Head(block)[2]
         IN /\ Len(bytes) >= w
            /\ CASE w = 1 -> bytes[1] = x
                 [] w = 2 -> bytes[1] + 256 * bytes[2] = x
                 [] w = 4 -> Word32(bytes[1], bytes[2], bytes[3], bytes[4]) = x
            /\ LsbFirst(SubSeq(bytes, w + 1, Len(bytes)), Tail(block))

\* C12: the bytes the codec's writes put on the link for a block of u8,
\* u16 and u32 fields are the fields' bytes, least significant first, and
\* when the device sends them back in a frame long enough the reads of the
\* same widths return the values written.
CodecRoundTrip ==
    app.op = "echo" =>
        /\ app.pc = "ecbr_release" =>
              LsbFirst(SubSeq(mosi, 10, Len(mosi)), app.buffer)
        /\ (app.pc \in {"res", "end_rx", "ret"} /\ ~obs.timedOut) =>
              Decoded(app.vals, app.buffer)

\* C12, the case: a block of a u32 0x12345678 and a u16 0xffff was written,
\* sent back and read.
CodecBlockReturned ==
    /\ app.op = "echo" /\ app.pc = "ret" /\ ~obs.timedOut
    /\ app.buffer = <<<<4, 305419896>>, <<2, 65535>>>>
    /\ app.vals = <<305419896, 65535>>
    /\ obs.reply = <<EventFrame(HCI_CMND_SETSOCKOPT,
                                <<120, 86, 52, 18, 255, 255>>)>>

HandlerStep ==
    /\ attached
    /\ UNCHANGED <<app, obs, late>>
    /\ dev' # dev \/ irq' # irq \/ hci_state' # hci_state

\* C14: a run of the handler that finds the mode WAIT_ASSERT sets it to IDLE
\* and does nothing else: no transfer, no change of the payload size, the
\* pending slot, the Data-Ready flag, the credits, the connectivity state or
\* select, no callback; and no run of the handler sets WAIT_ASSERT.
HandlerInWaitAssert ==
    [][HandlerStep =>
          /\ hci_state = HCI_STATE_WAIT_ASSERT =>
                /\ hci_state' = HCI_STATE_IDLE
                /\ mosi' = mosi
                /\ cb' = <<>>
                /\ UNCHANGED <<hci_payload_size, hci_pending_event,
                               hci_pending_event_available,
                               hci_data_available,
                               hci_available_buffer_count, hci_buffer_count,
                               wifi_connected, wifi_dhcp, ip_addr, cs,
                               hci_pad, txn, fin>>
          /\ hci_state' # HCI_STATE_WAIT_ASSERT]_vars

\* C14, the case: the handler has run in WAIT_ASSERT after the thread
\* asserted select, and the thread can leave its wait.
HandshakeAnswered ==
    /\ app.pc = "begin_spin" /\ cs /\ irq
    /\ hci_state = HCI_STATE_IDLE
    /\ mosi = <<>> /\ cb = <<>>

\* C15: a later command or data frame sets the mode to WAIT_ASSERT in a
\* step that does not assert select; between that step and the first byte
\* of the write header the thread puts no byte on the link and the mode
\* goes back to IDLE only by a run of the handler; and the bytes of the
\* frame are sent in mode IDLE.
HandshakeBeforeHeader ==
    [][/\ (app.pc = "begin_state" /\ app'.pc # "begin_state") =>
             /\ hci_state' = HCI_STATE_WAIT_ASSERT
             /\ cs' = cs /\ ~obs'.sel /\ obs'.tx = 0
       /\ (app.pc = "begin_cs" /\ app'.pc # "begin_cs") =>
             /\ cs' /\ obs'.sel /\ obs'.tx = 0
             /\ hci_state' = hci_state
       /\ (app.pc \in {"begin_cs", "begin_spin"}
           /\ hci_state = HCI_STATE_WAIT_ASSERT
           /\ hci_state' = HCI_STATE_IDLE) => HandlerStep
       /\ (app.pc = "begin_spin" /\ app'.pc # "begin_spin") =>
             /\ hci_state = HCI_STATE_IDLE
             /\ obs'.tx = 0
       /\ (app.op # "first" /\ txn'.kind \in {"cmd", "data"}
           /\ ~txn'.closed /\ mosi' # mosi) =>
             /\ hci_state = HCI_STATE_IDLE /\ hci_state' = HCI_STATE_IDLE
             /\ obs.sel]_vars

\* C15, the case: the header of a data frame is on the link after the
\* handshake.
HeaderAfterHandshake ==
    /\ app.op = "send" /\ app.pc = "args"
    /\ obs.sel /\ obs.tx = 10 /\ Len(mosi) = 10
    /\ hci_state = HCI_STATE_IDLE /\ cs /\ irq

\* byte i of a frame, 0 where the frame has ended
ByteAt(f, i) == IF i <= Len(f) THEN f[i] ELSE 0
\* the event code of an event frame
FrameCode(f) == ByteAt(f, 2) + 256 * ByteAt(f, 3)

\* a run of the handler in mode IDLE that reads the frame f
HandlerReads(f) ==
    /\ HandlerStep
    /\ hci_state = HCI_STATE_IDLE
    /\ dev'.pushed = f

\* C16: a run of the handler in mode IDLE on an event frame whose code is
\* the awaited one marks the slot available and returns after the type
\* byte, the code and the argument-length byte: the rest of the payload
\* remains, select stays asserted, no callback is made, the frame is not
\* ended, the connectivity state, the credits and the Data-Ready flag are
\* as they were.
MatchedEventLeftOpen ==
    [][\A f \in {dev'.pushed} :
          (/\ HandlerReads(f) /\ Len(f) >= 4
           /\ f[1] = HCI_TYPE_EVNT /\ FrameCode(f) = hci_pending_event)
          => /\ hci_pending_event_available'
             /\ Len(mosi') = 5 + 4
             /\ hci_payload_size' = Len(f) - 4
             /\ miso' = SubSeq(f, 5, Len(f))
             /\ cs' /\ txn'.kind = "rx" /\ fin' = <<>>
             /\ cb' = <<>>
             /\ UNCHANGED <<wifi_connected, wifi_dhcp, ip_addr,
                            hci_available_buffer_count, hci_buffer_count,
                            hci_data_available, hci_pending_event>>]_vars

\* C16, the case: the handler has matched the reply to socket; the status
\* byte and the result are still to be read.
ReplyMatched ==
    /\ app.op = "socket" /\ app.pc = "ecbr_wait"
    /\ dev.pushed = EventFrame(HCI_CMND_SOCKET, <<0>> \o LE32(258))
    /\ hci_pending_event_available
    /\ cs /\ hci_payload_size = 5 /\ miso = <<0, 2, 1, 0, 0>>
    /\ cb = <<>>

\* C17: a run of the handler in mode IDLE on an event frame whose code is
\* not the awaited one calls the callback once, with the code and with the
\* socket number of the frame for TCP-close-wait and 0 for any other code,
\* while select is still asserted, and ends the frame after it: nothing
\* remains of the payload and select is released when the handler returns.
UnsolicitedEventCalledBack ==
    [][\A f \in {dev'.pushed} :
          (/\ HandlerReads(f) /\ f # <<>>
           /\ f[1] = HCI_TYPE_EVNT /\ FrameCode(f) # hci_pending_event)
          => /\ cb' = <<<<FrameCode(f),
                          IF FrameCode(f) = HCI_EVNT_WLAN_UNSOL_TCP_CLOSE_WAIT
                          THEN Word32(ByteAt(f, 6), ByteAt(f, 7),
                                      ByteAt(f, 8), ByteAt(f, 9))
                          ELSE 0,
                          TRUE>>>>
             /\ fin' = <<<<Len(f), Len(f)>>>>
             /\ hci_payload_size' = 0
             /\ ~cs' /\ txn'.kind = "none"]_vars

\* C17, the case: a TCP-close-wait event for socket 258 was handled.
CloseWaitCalledBack ==
    /\ dev.pushed =
           EventFrame(HCI_EVNT_WLAN_UNSOL_TCP_CLOSE_WAIT, <<0, 2, 1, 0, 0>>)
    /\ cb = <<<<HCI_EVNT_WLAN_UNSOL_TCP_CLOSE_WAIT, 258, TRUE>>>>
    /\ fin = <<<<9, 9>>>>
    /\ hci_payload_size = 0 /\ ~cs

\* C18: a run of the handler in mode IDLE on a data frame reads the type
\* byte, the data opcode, the argument-length byte, the 16-bit payload
\* length and the argument bytes, as far as the frame reaches, sets the
\* Data-Ready flag and returns with the frame open: select asserted, the
\* payload size the frame length less the bytes read, no callback.
DataFrameLeftOpen ==
    [][\A f \in {dev'.pushed} :
          (/\ HandlerReads(f) /\ f # <<>>
           /\ f[1] = HCI_TYPE_DATA)
          => LET consumed == Min(Len(f), 5 + ByteAt(f, 3))
             IN /\ hci_data_available'
                /\ Len(mosi') = 5 + consumed
                /\ hci_payload_size' = Len(f) - consumed
                /\ cs' /\ txn'.kind = "rx" /\ fin' = <<>>
                /\ cb' = <<>>]_vars

\* C18, the case: a data frame with 2 bytes of payload was handled; the 2
\* bytes remain.
DataFrameHandled ==
    /\ dev.pushed = DataFrame(2)
    /\ hci_data_available /\ cs
    /\ hci_payload_size = 2 /\ miso = RecvData(2)
    /\ Len(mosi) = 12 /\ cb = <<>>

\* the step in which send writes the decremented count
SendStores == app.pc = "send_store" /\ app'.pc # "send_store"

\* C19: send lowers the available credits by exactly one per call, only
\* after it saw them above 0 and before any byte of the data frame is sent
\* or send asserts select; the count is never lowered from 0, and it is
\* lowered nowhere else.
SendDecrementsByOne ==
    [][/\ SendStores =>
             /\ hci_available_buffer_count > 0
             /\ hci_available_buffer_count' = hci_available_buffer_count - 1
             /\ obs.tx = 0 /\ ~obs.sel
       /\ hci_available_buffer_count' < hci_available_buffer_count
             => SendStores
       /\ (app'.op = "send" /\ app'.pc = "begin_state" /\ app.pc # app'.pc)
             => SendStores]_vars

\* What holds of the decrement: send writes once per call, before any byte
\* of the data frame, one less than the value it read, and both the value
\* read and the value overwritten are above 0.
SendStoresReadLessOne ==
    [][/\ SendStores =>
             /\ app.reg > 0
             /\ hci_available_buffer_count > 0
             /\ hci_available_buffer_count' = app.reg - 1
             /\ obs.tx = 0 /\ ~obs.sel
       /\ hci_available_buffer_count' < hci_available_buffer_count
             => SendStores
       /\ (app'.op = "send" /\ app'.pc = "begin_state" /\ app.pc # app'.pc)
             => SendStores]_vars

\* the step in which hci_begin_first_command enters for (;;)
FirstHalts == app.pc # "halt" /\ app'.pc = "halt"

\* C20: hci_begin_first_command halts only when the interrupt line has not
\* gone low during at least 5000 ms since its wait began, whatever the
\* clock was when the wait began.
HaltsOnlyAfterTimeout ==
    [][FirstHalts => /\ millis - app.entry >= FIRST_TIMEOUT
                     /\ ~irq]_vars

\* What holds of the halt: the line is not low at the poll before it, and
\* when the clock at entry fits 16 bits it comes no earlier than 5000 ms
\* after the wait began.
HaltsOnlyAfterTimeoutEarlyEntry ==
    [][FirstHalts => /\ app.entry < 65536
                        => millis - app.entry >= FIRST_TIMEOUT
                     /\ ~irq]_vars

\* C21: hci_end_command_begin_receive calls the callback with the
\* device-locked event only if the slot was not available when its wait
\* ended: a call whose reply was marked available by the deadline makes no
\* device-locked callback, whatever the clock does between the end of the
\* wait loop and the deadline check.
LockedOnlyIfSlotEmpty ==
    obs.locked > 0 => obs.timedOut

\* What holds of the deadline check: the callback is made exactly when the
\* clock read by the check is past the deadline, whether or not the slot
\* is available by then.
LockedIffLateAtCheck ==
    [][app.pc = "ecbr_check" /\ app'.pc # "ecbr_check" =>
          /\ late => /\ obs'.locked = obs.locked + 1
                     /\ cb' = <<<<HCI_EVNT_CC3000_LOCKED, 0, cs>>>>
          /\ ~late => obs'.locked = obs.locked /\ cb' = <<>>]_vars

\* C22: no byte is exchanged on the link while select is released; in
\* particular the reads of the status byte and of the result that follow
\* hci_end_command_begin_receive exchange none, also when its wait ended
\* by the deadline.
TransfersUnderSelect == ~obs.stray

\* What holds of the transfers: a call whose wait ended with the slot
\* available exchanges every byte under select.
AnsweredCallUnderSelect ==
    (app.pc \in {"res", "end_rx", "ret"} /\ ~obs.timedOut) => ~obs.stray

\* no receive transaction is open: select released, nothing left of a frame
FrameClosed == ~cs /\ hci_payload_size = 0

\* C23: every receive transaction the handler opens in mode IDLE is
\* eventually ended, by the handler or by the thread, whatever the leading
\* type byte of the frame and whether or not a call is waiting: a state
\* with select released and payload size 0 is reached.
OpenedFrameClosed == (txn.kind = "rx") ~> FrameClosed

\* the credits the handler added since send read the count
FreedSinceLoad == hci_available_buffer_count - app.reg

\* C24: no credit is lost when the handler runs inside send's decrement:
\* with n credits added between the read and the write of the count, the
\* value after the write is the value read, less one, plus n.
NoCreditLost ==
    [][SendStores =>
          hci_available_buffer_count' = app.reg - 1 + FreedSinceLoad]_vars

\* What holds of the preemption: credits added before the read or after
\* the write are kept (the handler's step adds what the frame reports to
\* the count as it is), and a decrement the handler does not interrupt
\* stores the count less one.
CreditsKeptOutsideDecrement ==
    [][/\ (HandlerStep /\ cb' # <<>>
           /\ cb'[1][1] = HCI_EVNT_DATA_UNSOL_FREE_BUFF)
          => hci_available_buffer_count'
                = hci_available_buffer_count + (dev.inFlight - dev'.inFlight)
       /\ (SendStores /\ FreedSinceLoad = 0)
          => hci_available_buffer_count' = hci_available_buffer_count - 1]_vars

\* C25: the credit wait of closesocket ends: once the device has reported
\* one freed buffer for every data frame it took, and the handler has run
\* for every report, closesocket sees the available credits equal to the
\* total and goes on to its command, however the reports fell among the
\* sends before.
CloseWaitEnds ==
    (app.pc = "close_wait" /\ dev.inFlight = 0) ~> (app.pc # "close_wait")

\* a run of the handler for an interrupt by which the device signals the
\* event frame f, whose code is not the awaited one
EventSignalled(f) ==
    /\ HandlerStep
    /\ dev'.pushed = f /\ f # <<>>
    /\ f[1] = HCI_TYPE_EVNT /\ FrameCode(f) # hci_pending_event

\* C26: every unsolicited event the device signals by interrupt is given to
\* the callback exactly once by the run of the handler for that interrupt,
\* whatever the mode is when the interrupt fires, the mode WAIT_ASSERT
\* between the thread's request and the device's ready signal included.
SignalledEventDelivered ==
    [][\A f \in {dev'.pushed} :
          EventSignalled(f)
          => /\ Len(cb') = 1
             /\ cb'[1][1] = FrameCode(f)]_vars

\* What holds of the delivery: an event signalled in mode IDLE is given to
\* the callback exactly once, and one signalled in mode WAIT_ASSERT is
\* given to nobody: the handler reads no byte of it and the mode goes to
\* IDLE, which the thread takes for the device's ready signal.
EventDeliveredInIdleOnly ==
    [][\A f \in {dev'.pushed} :
          EventSignalled(f)
          => IF hci_state = HCI_STATE_IDLE
             THEN Len(cb') = 1 /\ cb'[1][1] = FrameCode(f)
             ELSE /\ cb' = <<>> /\ mosi' = mosi
                  /\ hci_state' = HCI_STATE_IDLE]_vars

\* the calls that end with hci_end_command_receive_u32_result
U32ResultOps == {"socket", "closesocket"}

\* the return of hci_end_command_receive_u32_result to the caller, which
\* returns its value: the step that runs hci_end_receive
ReturnsU32Result ==
    /\ app.op \in U32ResultOps
    /\ app.pc = "end_rx" /\ app'.pc = "ret"

\* C27: when a call that ends with hci_end_command_receive_u32_result
\* returns, its reply having arrived before the deadline, the mode is IDLE,
\* select is released and nothing remains of the payload; and that stays so
\* while the application makes no further call.
QuiescentAtReturn ==
    [][/\ (ReturnsU32Result /\ ~obs.timedOut /\ obs.reply # <<>>)
          => /\ hci_state' = HCI_STATE_IDLE
             /\ ~cs' /\ hci_payload_size' = 0
       /\ (/\ app.op \in U32ResultOps /\ app.pc = "ret" /\ app'.pc = "ret"
           /\ ~obs.timedOut /\ obs.reply # <<>>)
          => /\ hci_state' = HCI_STATE_IDLE
             /\ ~cs' /\ hci_payload_size' = 0]_vars

\* C27, the case: closesocket has returned the result of its reply, read
\* from a frame the handler had left open.
CloseReturnedQuiescent ==
    /\ app.op = "closesocket" /\ app.pc = "ret"
    /\ ~obs.timedOut /\ obs.reply # <<>>
    /\ Len(app.vals) = 2
    /\ fin # <<>>
    /\ hci_state = HCI_STATE_IDLE /\ ~cs /\ hci_payload_size = 0

====
